---- MODULE Spec2Model ----
(***************************************************************************)
(* Model of the disktest chunk pipeline: the producer thread of a worker   *)
(* stream (stream.rs), the round-robin stream aggregator                   *)
(* (stream_aggregator.rs) and the buffer cache the aggregated chunks are   *)
(* recycled through (bufcache.rs).                                         *)
(*                                                                         *)
(* Threads: one consumer (the owner of the DtStream / DtStreamAgg objects) *)
(* and one producer thread per activated worker.  Every access to a shared *)
(* atomic or to a channel is one step; thread-local statements are folded  *)
(* into the step of the shared access that follows them.                   *)
(***************************************************************************)
EXTENDS Integers, Sequences, FiniteSets, TLC

\* ---------------------------------------------------------------- constants

\* DtStream::LEVEL_THRES
LEVEL_THRES == 8

\* Generator constants (generator-type specific; scaled down).
BASE_SIZE == 2
CHUNK_FACTOR == 1

\* Largest chunk position the generator can seek to.
SeekMaxChunks == 1

\* Largest worker count an aggregator is constructed with.
MaxThreads == 2

\* Chunks one producer generates per activation when a single DtStream is
\* driven directly / when it runs below an aggregator.
MaxChunks == 11
MaxAggChunks == 3

\* The same below an aggregator that is pulled from with wait_chunk.
MaxWaitChunks == 1

\* Activation offsets are the bytes 0 .. (MaxOffsetChunks + 1) * chunk_size - 1.
MaxOffsetChunks == 3

\* Aggregated chunks the consumer holds at a time.
MaxHeld == 1

\* Buffers waiting in one cache slot.
MaxSlotBufs == 1

\* Disktest: chunks a producer generates per activation, largest seek
\* position, largest max_bytes of a write (verify takes one more byte than
\* a write, as it takes u64::MAX).
MaxDiskChunks == 1
MaxSeek == 1
MaxBytes == 3

\* Disktest on a device that can fail: largest max_bytes of a call.
MaxDevBytes == 3

\* A BufCache driven directly: ids registered, channels made, buffers
\* waiting in all slots together, length of a buffer.
MaxCacheIds == 2
MaxChans == 2
MaxCacheBufs == 2
MaxBufLen == 2

Workers == 0 .. (MaxThreads - 1)

\* DtStream::get_chunk_size
get_chunk_size == BASE_SIZE * CHUNK_FACTOR

Offsets == 0 .. ((MaxOffsetChunks + 1) * get_chunk_size - 1)

CacheIds == 0 .. (MaxCacheIds - 1)

\* Byte values: 0, which Vec::resize fills with, and one that is not 0.
Bytes == {0, 1}

\* Vec<u8> of at most MaxBufLen bytes
Bufs == UNION {[1 .. n -> Bytes] : n \in 0 .. MaxBufLen}

\* ---------------------------------------------------------------- state

VARIABLES
    \* DtStream fields, per worker
    is_active,      \* bool
    rx,             \* Option<Receiver>: [some, q]; q is the channel's content
    thread_join,    \* Option<JoinHandle>: TRUE = Some
    abort,          \* AtomicBool
    error,          \* AtomicBool
    level,          \* AtomicIsize
    \* thread_worker, per worker
    pc,             \* position of the producer thread
    byte_offset,    \* the thread's byte_offset argument
    gen,            \* generator position (bytes)
    index,          \* the loop's chunk index
    \* DtStreamAgg fields
    num_threads,
    current_index,
    agg_active,
    snd,            \* BufCache::snd: per registered id, the channel it sends to
    chan,           \* the cache's channels: [q, rcv], rcv = receiver alive
    \* consumer thread
    cpc,            \* position of the consumer
    cop,            \* the operation in progress
    ci,             \* the worker the consumer is operating on
    coff,           \* the offset a worker is being activated at
    took,           \* chunk received and not yet accounted in level
    held,           \* aggregated chunks the consumer holds
    \* history
    result,         \* outcome of the last try_pull
    last,           \* the chunk the last successful try_pull returned
    pulled,         \* successful pulls since the aggregator was activated
    taken,          \* per worker: chunks taken since the worker was started
    act_req,        \* offset the last activate was called with
    act_ret,        \* offset it returned
    \* the owner of a BufCache
    bop,            \* the cache operation performed last, with what it returned
    \* Disktest
    file,           \* content of the file (device)
    fpos,           \* position of the file
    dpc,            \* position of write / verify
    dop,            \* the call in progress or made last: [op, seek, max_bytes]
    bytes_left,
    bytes_written,
    bytes_read,
    buffer,         \* verify's read buffer
    read_count,
    read_len,
    read_n,         \* n, what the last file.read returned
    dret,           \* what the last call returned: [kind, val]
    wrote,          \* the write that completed last, if the file is as it left it
    finalized,      \* the write_finalize / verify_finalize of the call, if any
    disk_abort,     \* Disktest::abort, the flag the signal handler sets
    dev             \* the device: [size, fail]

wvars == <<is_active, rx, thread_join, abort, error, level>>
tvars == <<pc, byte_offset, gen, index>>
avars == <<num_threads, current_index, agg_active, snd, chan>>
cvars == <<cpc, cop, ci, coff, took, held>>
hvars == <<result, last, pulled, taken, act_req, act_ret>>
dvars == <<file, fpos, dpc, dop, bytes_left, bytes_written, bytes_read,
           buffer, read_count, read_len, read_n, dret, wrote,
           finalized, disk_abort, dev>>
xvars == <<bop, dvars>>
vars == <<wvars, tvars, avars, cvars, hvars, xvars>>

\* ---------------------------------------------------------------- generator

\* NextRandom::seek: fails outside the generator's domain and on offsets that
\* are no multiple of the base size.
GenSeekOk(off) ==
    /\ off % BASE_SIZE = 0
    /\ off <= SeekMaxChunks * get_chunk_size

\* NextRandom::next(chunk_factor): the keystream bytes of worker tid
\* from position pos on, chunk_factor * BASE_SIZE of them.
GenNext(tid, pos) == [tid |-> tid, pos |-> pos, len |-> BASE_SIZE * CHUNK_FACTOR]

\* DtStreamChunk
DtStreamChunk(i, d) == [index |-> i, data |-> d]

\* The byte of worker tid's keystream at position p (the generator's output
\* under the worker's key, kdf(seed, tid)).
KeyByte(tid, p) == (tid + p + (p \div BASE_SIZE)) % 2

\* data[i] of a chunk's data
DataByte(d, i) == KeyByte(d.tid, d.pos + i)

\* ---------------------------------------------------------------- producer

\* Mutant of ThreadSeek: the generator stays at its start.
ThreadSeekNot(w) ==
    /\ pc[w] = "seek"
    /\ IF GenSeekOk(byte_offset[w])
       THEN /\ gen' = [gen EXCEPT ![w] = 0]
            /\ index' = [index EXCEPT ![w] = 0]
            /\ pc' = [pc EXCEPT ![w] = "check_abort"]
            /\ UNCHANGED error
            /\ UNCHANGED byte_offset
       ELSE /\ error' = [error EXCEPT ![w] = TRUE]
            /\ pc' = [pc EXCEPT ![w] = "done"]
            /\ byte_offset' = [byte_offset EXCEPT ![w] = 0]
            /\ UNCHANGED <<gen, index>>
    /\ UNCHANGED <<is_active, rx, thread_join, abort, level>>
    /\ UNCHANGED <<avars, cvars, hvars>>
    /\ UNCHANGED xvars

\* thread_worker, lines 69-74: seek the generator.  (A thread that returns
\* leaves no locals behind: they are zeroed.)
ThreadSeek(w) ==
    /\ pc[w] = "seek"
    /\ IF GenSeekOk(byte_offset[w])
       THEN /\ gen' = [gen EXCEPT ![w] = byte_offset[w]]
            /\ index' = [index EXCEPT ![w] = 0]
            /\ pc' = [pc EXCEPT ![w] = "check_abort"]
            /\ UNCHANGED error
            /\ UNCHANGED byte_offset
       ELSE /\ error' = [error EXCEPT ![w] = TRUE]
            /\ pc' = [pc EXCEPT ![w] = "done"]
            /\ byte_offset' = [byte_offset EXCEPT ![w] = 0]
            /\ UNCHANGED <<gen, index>>
    /\ UNCHANGED <<is_active, rx, thread_join, abort, level>>
    /\ UNCHANGED <<avars, cvars, hvars>>
    /\ UNCHANGED xvars

\* thread_worker, line 78: while !abort.load()
ThreadCheckAbort(w) ==
    /\ pc[w] = "check_abort"
    /\ IF abort[w]
       THEN /\ pc' = [pc EXCEPT ![w] = "done"]
            /\ byte_offset' = [byte_offset EXCEPT ![w] = 0]
            /\ gen' = [gen EXCEPT ![w] = 0]
            /\ index' = [index EXCEPT ![w] = 0]
       ELSE /\ pc' = [pc EXCEPT ![w] = "check_level"]
            /\ UNCHANGED <<byte_offset, gen, index>>
    /\ UNCHANGED <<wvars, avars, cvars, hvars>>
    /\ UNCHANGED xvars

\* Mutant of LevelBelowThres: off by one.
LevelAtMostThres(l) == l <= LEVEL_THRES

\* The level test of line 79.
LevelBelowThres(l) == l < LEVEL_THRES

\* Mutant of ThreadCheckLevel: a producer at the cap waits for the level to
\* fall before it looks at abort again.
ThreadCheckLevelWait(w, cap) ==
    /\ pc[w] = "check_level"
    /\ LevelBelowThres(level[w])
    /\ pc' = [pc EXCEPT ![w] = IF index[w] < cap THEN "send" ELSE "check_abort"]
    /\ UNCHANGED <<wvars, byte_offset, gen, index, avars, cvars, hvars>>
    /\ UNCHANGED xvars

\* thread_worker, lines 79 and 94-97: if level.load() < LEVEL_THRES, else sleep.
\* A producer that has generated cap chunks is not scheduled to generate
\* more: it goes round the loop as if it slept.
ThreadCheckLevel(w, cap) ==
    /\ pc[w] = "check_level"
    /\ pc' = [pc EXCEPT ![w] =
                IF LevelBelowThres(level[w]) /\ index[w] < cap
                THEN "send" ELSE "check_abort"]
    /\ UNCHANGED <<wvars, byte_offset, gen, index, avars, cvars, hvars>>
    /\ UNCHANGED xvars

\* Mutant of ThreadSend: the index is not incremented.
ThreadSendSameIndex(w) ==
    /\ pc[w] = "send"
    /\ rx[w].some
    /\ rx' = [rx EXCEPT ![w].q =
                Append(@, [index |-> index[w],
                           data |-> [tid |-> w, pos |-> gen[w],
                                     len |-> BASE_SIZE * CHUNK_FACTOR]])]
    /\ gen' = [gen EXCEPT ![w] = @ + BASE_SIZE * CHUNK_FACTOR]
    /\ pc' = [pc EXCEPT ![w] = "inc"]
    /\ UNCHANGED <<is_active, thread_join, abort, error, level, byte_offset>>
    /\ UNCHANGED <<index, avars, cvars, hvars>>
    /\ UNCHANGED xvars

\* thread_worker, lines 82-92: generate the chunk and send it.  The send
\* fails, and the thread panics, if the receiver of its channel is gone.
ThreadSend(w) ==
    /\ pc[w] = "send"
    /\ IF rx[w].some
       THEN /\ rx' = [rx EXCEPT ![w].q =
                        Append(@, DtStreamChunk(index[w], GenNext(w, gen[w])))]
            /\ gen' = [gen EXCEPT ![w] = @ + BASE_SIZE * CHUNK_FACTOR]
            /\ index' = [index EXCEPT ![w] = @ + 1]
            /\ pc' = [pc EXCEPT ![w] = "inc"]
       ELSE /\ pc' = [pc EXCEPT ![w] = "panic"]
            /\ UNCHANGED <<rx, gen, index>>
    /\ UNCHANGED <<is_active, thread_join, abort, error, level, byte_offset>>
    /\ UNCHANGED <<avars, cvars, hvars>>
    /\ UNCHANGED xvars

\* Mutant of ThreadInc: the level is not incremented.
ThreadIncLost(w) ==
    /\ pc[w] = "inc"
    /\ pc' = [pc EXCEPT ![w] = "check_abort"]
    /\ UNCHANGED <<wvars, byte_offset, gen, index, avars, cvars, hvars>>
    /\ UNCHANGED xvars

\* thread_worker, line 93: level.fetch_add(1)
ThreadInc(w) ==
    /\ pc[w] = "inc"
    /\ level' = [level EXCEPT ![w] = @ + 1]
    /\ pc' = [pc EXCEPT ![w] = "check_abort"]
    /\ UNCHANGED <<is_active, rx, thread_join, abort, error>>
    /\ UNCHANGED <<byte_offset, gen, index, avars, cvars, hvars>>
    /\ UNCHANGED xvars

\* One step of the producer thread of worker w.
thread_worker(w, cap) ==
    \/ ThreadSeek(w)
    \/ ThreadCheckAbort(w)
    \/ ThreadCheckLevel(w, cap)
    \/ ThreadSend(w)
    \/ ThreadInc(w)

\* ---------------------------------------------------------------- DtStream

\* DtStream::stop, lines 142-143: is_active = false; abort.store(true)
stop_begin(w) ==
    /\ is_active' = [is_active EXCEPT ![w] = FALSE]
    /\ abort' = [abort EXCEPT ![w] = TRUE]

\* Mutant of stop_join: the handle is taken but the thread is not waited for.
stop_join_nowait(w) ==
    /\ thread_join' = [thread_join EXCEPT ![w] = FALSE]
    /\ pc' = [pc EXCEPT ![w] = IF pc[w] = "done" THEN "none" ELSE @]
    /\ abort' = [abort EXCEPT ![w] = FALSE]

\* DtStream::stop, lines 144-147: join the thread if there is one (blocks
\* until it has returned), then abort.store(false)
stop_join(w) ==
    /\ thread_join[w] => pc[w] = "done"
    /\ thread_join' = [thread_join EXCEPT ![w] = FALSE]
    /\ pc' = [pc EXCEPT ![w] = IF thread_join[w] THEN "none" ELSE @]
    /\ abort' = [abort EXCEPT ![w] = FALSE]

\* Mutant of start: the level of the previous activation is kept.
start_keep_level(w, off) ==
    /\ ~is_active[w]
    /\ ~thread_join[w]
    /\ abort' = [abort EXCEPT ![w] = FALSE]
    /\ error' = [error EXCEPT ![w] = FALSE]
    /\ level' = level
    /\ rx' = [rx EXCEPT ![w] = [some |-> TRUE, q |-> <<>>]]
    /\ byte_offset' = [byte_offset EXCEPT ![w] = off]
    /\ gen' = [gen EXCEPT ![w] = 0]
    /\ index' = [index EXCEPT ![w] = 0]
    /\ pc' = [pc EXCEPT ![w] = "seek"]
    /\ thread_join' = [thread_join EXCEPT ![w] = TRUE]
    /\ is_active' = [is_active EXCEPT ![w] = TRUE]
    /\ taken' = [taken EXCEPT ![w] = 0]

\* Mutant of start: the channel of the previous activation is kept.
start_keep_channel(w, off) ==
    /\ ~is_active[w]
    /\ ~thread_join[w]
    /\ abort' = [abort EXCEPT ![w] = FALSE]
    /\ error' = [error EXCEPT ![w] = FALSE]
    /\ level' = [level EXCEPT ![w] = 0]
    /\ rx' = [rx EXCEPT ![w].some = TRUE]
    /\ byte_offset' = [byte_offset EXCEPT ![w] = off]
    /\ gen' = [gen EXCEPT ![w] = 0]
    /\ index' = [index EXCEPT ![w] = 0]
    /\ pc' = [pc EXCEPT ![w] = "seek"]
    /\ thread_join' = [thread_join EXCEPT ![w] = TRUE]
    /\ is_active' = [is_active EXCEPT ![w] = TRUE]
    /\ taken' = [taken EXCEPT ![w] = 0]

\* DtStream::start: the two assertions hold, the communication is
\* re-initialised, the thread is spawned.
start(w, off) ==
    /\ ~is_active[w]
    /\ ~thread_join[w]
    /\ abort' = [abort EXCEPT ![w] = FALSE]
    /\ error' = [error EXCEPT ![w] = FALSE]
    /\ level' = [level EXCEPT ![w] = 0]
    /\ rx' = [rx EXCEPT ![w] = [some |-> TRUE, q |-> <<>>]]
    /\ byte_offset' = [byte_offset EXCEPT ![w] = off]
    /\ gen' = [gen EXCEPT ![w] = 0]
    /\ index' = [index EXCEPT ![w] = 0]
    /\ pc' = [pc EXCEPT ![w] = "seek"]
    /\ thread_join' = [thread_join EXCEPT ![w] = TRUE]
    /\ is_active' = [is_active EXCEPT ![w] = TRUE]
    /\ taken' = [taken EXCEPT ![w] = 0]


\* Mutant of get_chunk_check: the error flag is not looked at.
get_chunk_check_noerr(w) ==
    IF ~is_active[w] THEN [cpc |-> "idle", result |-> "none"]
    ELSE [cpc |-> "recv", result |-> "-"]

\* DtStream::get_chunk, lines 235-237: inactive -> None; error flag -> Err;
\* otherwise go on to the channel.  Yields the consumer's next position and
\* the outcome ("-" while the call is still running).
get_chunk_check(w) ==
    IF ~is_active[w] THEN [cpc |-> "idle", result |-> "none"]
    ELSE IF error[w] THEN [cpc |-> "idle", result |-> "err"]
    ELSE [cpc |-> "recv", result |-> "-"]

\* Mutant of try_recv: the newest message is received.
try_recv_newest(q) == [msg |-> q[Len(q)], rest |-> SubSeq(q, 1, Len(q) - 1)]

\* Receiver::try_recv on a channel that holds something: the oldest message
\* is received.
try_recv(q) == [msg |-> Head(q), rest |-> Tail(q)]

\* DtStream::get_chunk, lines 238-247: rx.try_recv().  With nothing
\* received the call returns None: to the caller, or into the loop of
\* DtStreamAgg::wait_chunk.
get_chunk_recv(w) ==
    IF rx[w].some /\ rx[w].q # <<>>
    THEN /\ took' = <<try_recv(rx[w].q).msg>>
         /\ rx' = [rx EXCEPT ![w].q = try_recv(rx[w].q).rest]
         /\ cpc' = "dec"
         /\ UNCHANGED result
    ELSE /\ result' = "none"
         /\ cpc' = IF cop = "agg_wait" THEN "wait" ELSE "idle"
         /\ UNCHANGED <<took, rx>>

\* Mutant of get_chunk_dec: the level is not decremented.
get_chunk_dec_lost(w) ==
    /\ level' = level
    /\ taken' = [taken EXCEPT ![w] = @ + 1]

\* DtStream::get_chunk, line 241: level.fetch_sub(1)
get_chunk_dec(w) ==
    /\ level' = [level EXCEPT ![w] = @ - 1]
    /\ taken' = [taken EXCEPT ![w] = @ + 1]

\* ---------------------------------------------------------------- BufCache

\* BufCache::new_consumer: a channel is made, its sender is inserted into
\* the map under cons_id (HashMap::insert replaces the entry of a key that is
\* present), its receiver goes into the BufCacheCons returned.  Channels are
\* numbered in the order they are made.
new_consumer(cons_id) ==
    [chan |-> Append(chan, [q |-> <<>>, rcv |-> TRUE]),
     snd |-> [i \in (DOMAIN snd) \cup {cons_id} |->
                 IF i = cons_id THEN Len(chan) + 1 ELSE snd[i]],
     cons |-> Len(chan) + 1]

\* Mutant of push_ok: a slot whose consumer is gone counts as unknown.
push_ok_open(cons_id) ==
    /\ cons_id \in DOMAIN snd
    /\ chan[snd[cons_id]].rcv

\* BufCache::push, lines 46-48: panics on an id that is not in the map.
push_ok(cons_id) == cons_id \in DOMAIN snd

\* Sender::send fails when the receiver of the channel has been dropped.
send_ok(cons_id) == chan[snd[cons_id]].rcv

\* Mutant of push: one channel is shared by all consumers.
push_shared(cons_id, buf) ==
    IF send_ok(cons_id)
    THEN [chan EXCEPT ![1].q = Append(@, buf)]
    ELSE chan

\* Mutant of push: the buffer is queued whether or not the receiver is there.
push_always(cons_id, buf) == [chan EXCEPT ![snd[cons_id]].q = Append(@, buf)]

\* BufCache::push, lines 49-53: send the buffer to the consumer's channel; a
\* failed send drops the buffer (and prints a warning).
push(cons_id, buf) ==
    IF send_ok(cons_id)
    THEN [chan EXCEPT ![snd[cons_id]].q = Append(@, buf)]
    ELSE chan

\* Mutant of resize: a longer buffer is not truncated.
resize_grow(buf, buf_len) ==
    [i \in 1 .. (IF Len(buf) > buf_len THEN Len(buf) ELSE buf_len) |->
        IF i <= Len(buf) THEN buf[i] ELSE 0]

\* Vec::resize(buf_len, 0)
resize(buf, buf_len) ==
    [i \in 1 .. buf_len |-> IF i <= Len(buf) THEN buf[i] ELSE 0]

\* BufCacheCons::pull on the receiver of channel c: a buffer from the
\* channel, or else an empty vector (lines 63-66), resized to buf_len if its
\* length differs (lines 67-69).  Yields the buffer and the channel's rest.
pull(c, buf_len) ==
    LET r == IF chan[c].q # <<>>
             THEN try_recv(chan[c].q)
             ELSE [msg |-> <<>>, rest |-> chan[c].q]
    IN  [buf |-> IF Len(r.msg) # buf_len THEN resize(r.msg, buf_len) ELSE r.msg,
         rest |-> r.rest]

\* ---------------------------------------------------------------- DtStreamAgg

\* Mutant of good_offset: the offset rounded up to a chunk.
good_offset_up(off) ==
    off + ((get_chunk_size - (off % get_chunk_size)) % get_chunk_size)

\* DtStreamAgg::activate, lines 96-108: the offset rounded down to a chunk.
good_offset(off) == off - (off % get_chunk_size)

\* DtStreamAgg::activate, lines 109-110
chunk_index_of(off) == good_offset(off) \div get_chunk_size

\* Mutant of thread_offset: the stream at current_index starts one chunk
\* late as well.
thread_offset_le(i, chunk_index, cur, n) ==
    LET iteration == chunk_index \div n
    IN  IF i <= cur
        THEN (iteration + 1) * get_chunk_size
        ELSE iteration * get_chunk_size

\* DtStreamAgg::activate, lines 114-120: the byte offset of stream i.
thread_offset(i, chunk_index, cur, n) ==
    LET iteration == chunk_index \div n
    IN  IF i < cur
        THEN (iteration + 1) * get_chunk_size
        ELSE iteration * get_chunk_size

\* Mutant of agg_pull_index: a stream that has a chunk ready is preferred
\* to an empty current one.
agg_pull_ready ==
    IF rx[current_index].q = <<>>
       /\ \E w \in 0 .. (num_threads - 1) : rx[w].q # <<>>
    THEN CHOOSE w \in 0 .. (num_threads - 1) : rx[w].q # <<>>
    ELSE current_index

\* DtStreamAgg::get_chunk, line 141: the stream that is asked for a chunk.
agg_pull_index == current_index

\* Mutant of AggAdvance: the index does not wrap.
AggAdvanceNoWrap(cur, n) == cur + 1

\* DtStreamAgg::get_chunk, line 142: the index advances.
AggAdvance(cur, n) == (cur + 1) % n

\* DtStreamAggChunk { chunk, thread_id, cache }.  origin (not a field)
\* records the stream the chunk was taken from.
DtStreamAggChunk(chunk, thread_id, from) ==
    [chunk |-> chunk, thread_id |-> thread_id, origin |-> from]

\* ---------------------------------------------------------------- consumer

\* DtStream::stop, first half, on the worker the consumer is at.
StopBegin ==
    /\ cpc = "stop"
    /\ stop_begin(ci)
    /\ cpc' = "join"
    /\ UNCHANGED <<rx, thread_join, error, level, tvars, avars>>
    /\ UNCHANGED <<cop, ci, coff, took, held, hvars>>
    /\ UNCHANGED xvars

\* DtStream::stop, second half.  It returns to DtStream::activate (start
\* follows), to the caller of stop, or to the destructor.
StopJoin ==
    /\ cpc = "join"
    /\ stop_join(ci)
    /\ cpc' = CASE cop \in {"activate", "agg_activate"} -> "start"
                [] cop = "stop" -> "idle"
                [] OTHER -> "dropped"
    /\ UNCHANGED <<is_active, rx, error, level, byte_offset, gen, index>>
    /\ UNCHANGED <<avars, cop, ci, coff, took, held, hvars>>
    /\ UNCHANGED xvars

\* DtStream::start from DtStream::activate; with it the loop of
\* DtStreamAgg::activate goes to the next stream or ends (lines 113-126).
Start ==
    /\ cpc = "start"
    /\ start(ci, coff)
    /\ IF cop = "agg_activate" /\ ci + 1 < num_threads
       THEN /\ ci' = ci + 1
            /\ coff' = thread_offset(ci + 1, chunk_index_of(act_req),
                                     current_index, num_threads)
            /\ cpc' = "stop"
            /\ UNCHANGED agg_active
       ELSE /\ cpc' = "idle"
            /\ agg_active' = (agg_active \/ cop = "agg_activate")
            /\ ci' = 0
            /\ coff' = 0
    /\ UNCHANGED <<num_threads, current_index, snd, chan, cop, took, held>>
    /\ UNCHANGED <<result, last, pulled, act_req, act_ret>>
    /\ UNCHANGED xvars

\* DtStream::get_chunk, the channel step.
Recv ==
    /\ cpc = "recv"
    /\ get_chunk_recv(ci)
    /\ UNCHANGED <<is_active, thread_join, abort, error, level, tvars, avars>>
    /\ UNCHANGED <<cop, ci, coff, held, last, pulled, taken, act_req, act_ret>>
    /\ UNCHANGED xvars

\* DtStream::get_chunk, the level step, and the return of the chunk: to the
\* caller of DtStream::get_chunk, or through DtStreamAgg::get_chunk, lines
\* 142-147, where current_index advances first and the chunk's thread_id is
\* then read from it.
Dec ==
    /\ cpc = "dec"
    /\ get_chunk_dec(ci)
    /\ IF cop \in {"agg_get", "agg_wait"}
       THEN /\ current_index' = AggAdvance(current_index, num_threads)
            /\ last' = <<DtStreamAggChunk(took[1], current_index', ci)>>
            /\ held' = Append(held, last'[1])
            /\ pulled' = pulled + 1
       ELSE /\ last' = <<DtStreamAggChunk(took[1], ci, ci)>>
            /\ pulled' = pulled + 1
            /\ UNCHANGED <<current_index, held>>
    /\ took' = <<>>
    /\ result' = "chunk"
    /\ cpc' = "idle"
    /\ UNCHANGED <<is_active, rx, thread_join, abort, error, tvars>>
    /\ UNCHANGED <<num_threads, agg_active, snd, chan, cop, ci, coff, act_req, act_ret>>
    /\ UNCHANGED xvars

\* --- a DtStream driven directly (worker 0), as stream.rs's tests do

\* DtStream::activate(off)
StreamActivate(off) ==
    /\ cpc = "idle"
    /\ cop' = "activate"
    /\ ci' = 0
    /\ coff' = off
    /\ cpc' = "stop"
    /\ result' = "-"
    /\ last' = <<>>
    /\ pulled' = 0
    /\ act_req' = off
    /\ UNCHANGED <<wvars, tvars, avars, took, held, taken, act_ret>>
    /\ UNCHANGED xvars

\* DtStream::stop()
StreamStop ==
    /\ cpc = "idle"
    /\ cop' = "stop"
    /\ ci' = 0
    /\ cpc' = "stop"
    /\ UNCHANGED <<wvars, tvars, avars, coff, took, held, hvars>>
    /\ UNCHANGED xvars

\* Drop for DtStream
StreamDrop ==
    /\ cpc = "idle"
    /\ cop' = "drop"
    /\ ci' = 0
    /\ cpc' = "stop"
    /\ UNCHANGED <<wvars, tvars, avars, coff, took, held, hvars>>
    /\ UNCHANGED xvars

\* Drop for DtStream, after its stop() has returned: the fields are
\* dropped, the receiver and what its channel holds among them.
StreamDropFields ==
    /\ cpc = "dropped"
    /\ rx' = [rx EXCEPT ![ci] = [some |-> FALSE, q |-> <<>>]]
    /\ cpc' = "gone"
    /\ UNCHANGED <<is_active, thread_join, abort, error, level, tvars, avars>>
    /\ UNCHANGED <<cop, ci, coff, took, held, hvars>>
    /\ UNCHANGED xvars

\* DtStream::get_chunk()
StreamGetChunk ==
    /\ cpc = "idle"
    /\ cop' = "get"
    /\ ci' = 0
    /\ cpc' = get_chunk_check(0).cpc
    /\ result' = get_chunk_check(0).result
    /\ UNCHANGED <<wvars, tvars, avars, coff, took, held>>
    /\ UNCHANGED <<last, pulled, taken, act_req, act_ret>>
    /\ UNCHANGED xvars

\* --- the aggregator

\* DtStreamAgg::activate(off), lines 92-110, up to the loop over the streams.
activate(off) ==
    /\ current_index' = chunk_index_of(off) % num_threads
    /\ act_req' = off
    /\ act_ret' = good_offset(off)
    /\ cop' = "agg_activate"
    /\ ci' = 0
    /\ coff' = thread_offset(0, chunk_index_of(off), current_index', num_threads)
    /\ cpc' = "stop"
    /\ result' = "-"
    /\ last' = <<>>
    /\ pulled' = 0
    /\ UNCHANGED <<wvars, tvars, num_threads, agg_active, snd, chan, took, held, taken>>

\* DtStreamAgg::activate(off) called on the aggregator directly.
AggActivate(off) ==
    /\ cpc = "idle"
    /\ activate(off)
    /\ UNCHANGED xvars

\* DtStreamAgg::get_chunk(), lines 140-141 and 151-153.
AggGetChunk ==
    /\ cpc = "idle"
    /\ Len(held) < MaxHeld
    /\ cop' = "agg_get"
    /\ IF agg_active
       THEN /\ ci' = agg_pull_index
            /\ cpc' = get_chunk_check(agg_pull_index).cpc
            /\ result' = get_chunk_check(agg_pull_index).result
       ELSE /\ result' = "none"
            /\ UNCHANGED <<ci, cpc>>
    /\ UNCHANGED <<wvars, tvars, avars, coff, took, held>>
    /\ UNCHANGED <<last, pulled, taken, act_req, act_ret>>
    /\ UNCHANGED xvars

\* Mutant of AggWaitChunk: an aggregator that is not active is waited on.
AggWaitChunkSpin ==
    /\ cpc = "idle"
    /\ Len(held) < MaxHeld
    /\ cop' = "agg_wait"
    /\ cpc' = "wait"
    /\ result' = "-"
    /\ UNCHANGED <<wvars, tvars, avars, ci, coff, took, held>>
    /\ UNCHANGED <<last, pulled, taken, act_req, act_ret>>
    /\ UNCHANGED xvars

\* DtStreamAgg::wait_chunk(), lines 157 and 164-166: enter the loop, or
\* panic if the aggregator is not active.
wait_chunk ==
    /\ cop' = "agg_wait"
    /\ cpc' = IF agg_active THEN "wait" ELSE "panic"
    /\ result' = "-"
    /\ UNCHANGED <<wvars, tvars, avars, ci, coff, took, held>>
    /\ UNCHANGED <<last, pulled, taken, act_req, act_ret>>

\* DtStreamAgg::wait_chunk() called on the aggregator directly.
AggWaitChunk ==
    /\ cpc = "idle"
    /\ Len(held) < MaxHeld
    /\ wait_chunk
    /\ UNCHANGED xvars

\* DtStreamAgg::wait_chunk(), lines 158-163: one round of the loop calls
\* get_chunk (lines 140-141); an error leaves the loop, a stream that yields
\* nothing is asked again after the sleep.
WaitLoop ==
    /\ cpc = "wait"
    /\ ci' = agg_pull_index
    /\ cpc' = IF get_chunk_check(agg_pull_index).result = "none"
              THEN "wait"
              ELSE get_chunk_check(agg_pull_index).cpc
    /\ result' = get_chunk_check(agg_pull_index).result
    /\ UNCHANGED <<wvars, tvars, avars, cop, coff, took, held>>
    /\ UNCHANGED <<last, pulled, taken, act_req, act_ret>>
    /\ UNCHANGED xvars

\* Drop for DtStreamAggChunk: the buffer goes to the cache under thread_id.
DropChunk ==
    /\ cpc = "idle"
    /\ held # <<>>
    /\ IF push_ok(held[1].thread_id)
       THEN /\ Len(chan[snd[held[1].thread_id]].q) < MaxSlotBufs
            /\ chan' = push(held[1].thread_id, held[1].chunk.data)
            /\ cpc' = "idle"
       ELSE /\ cpc' = "panic"
            /\ UNCHANGED chan
    /\ held' = Tail(held)
    /\ UNCHANGED <<wvars, tvars, num_threads, current_index, agg_active, snd>>
    /\ UNCHANGED <<cop, ci, coff, took, hvars>>
    /\ UNCHANGED xvars

\* --- a BufCache driven directly, as bufcache.rs's tests do

\* Buffers waiting in all channels.
RECURSIVE Buffered(_)
Buffered(c) == IF c = 0 THEN 0 ELSE Len(chan[c].q) + Buffered(c - 1)

\* BufCache::new_consumer(cons_id)
CacheNewConsumer(cons_id) ==
    /\ cpc = "idle"
    /\ Len(chan) < MaxChans
    /\ chan' = new_consumer(cons_id).chan
    /\ snd' = new_consumer(cons_id).snd
    /\ bop' = [op |-> "new_consumer", id |-> cons_id,
               len |-> new_consumer(cons_id).cons, buf |-> <<>>, ret |-> "ok"]
    /\ UNCHANGED <<wvars, tvars, num_threads, current_index, agg_active>>
    /\ UNCHANGED <<cvars, hvars>>
    /\ UNCHANGED dvars

\* BufCache::push(cons_id, buf)
CachePush(cons_id, buf) ==
    /\ cpc = "idle"
    /\ IF push_ok(cons_id)
       THEN /\ send_ok(cons_id) => Buffered(Len(chan)) < MaxCacheBufs
            /\ chan' = push(cons_id, buf)
            /\ bop' = [op |-> "push", id |-> cons_id, len |-> 0, buf |-> <<>>,
                       ret |-> IF send_ok(cons_id) THEN "ok" ELSE "send_failed"]
            /\ cpc' = "idle"
       ELSE /\ bop' = [op |-> "push", id |-> cons_id, len |-> 0, buf |-> <<>>,
                       ret |-> "panic"]
            /\ cpc' = "panic"
            /\ UNCHANGED chan
    /\ UNCHANGED <<wvars, tvars, num_threads, current_index, agg_active, snd>>
    /\ UNCHANGED <<cop, ci, coff, took, held, hvars>>
    /\ UNCHANGED dvars

\* BufCacheCons::pull(buf_len) on the consumer that holds the receiver of
\* channel c
CachePull(c, buf_len) ==
    /\ cpc = "idle"
    /\ c \in 1 .. Len(chan)
    /\ chan[c].rcv
    /\ chan' = [chan EXCEPT ![c].q = pull(c, buf_len).rest]
    /\ bop' = [op |-> "pull", id |-> c, len |-> buf_len,
               buf |-> pull(c, buf_len).buf, ret |-> "ok"]
    /\ UNCHANGED <<wvars, tvars, num_threads, current_index, agg_active, snd>>
    /\ UNCHANGED <<cvars, hvars>>
    /\ UNCHANGED dvars

\* Drop of the BufCacheCons that holds the receiver of channel c: the
\* receiver goes, and what the channel held with it.
CacheConsDrop(c) ==
    /\ cpc = "idle"
    /\ c \in 1 .. Len(chan)
    /\ chan[c].rcv
    /\ chan' = [chan EXCEPT ![c] = [q |-> <<>>, rcv |-> FALSE]]
    /\ bop' = [op |-> "drop", id |-> c, len |-> 0, buf |-> <<>>, ret |-> "ok"]
    /\ UNCHANGED <<wvars, tvars, num_threads, current_index, agg_active, snd>>
    /\ UNCHANGED <<cvars, hvars>>
    /\ UNCHANGED dvars

\* ---------------------------------------------------------------- Disktest

\* std::cmp::min
min(a, b) == IF a < b THEN a ELSE b

\* File::write_all(bytes) at position pos: the bytes replace what is there
\* and extend the file; a gap before pos reads as zeros.
WriteAt(f, pos, bytes) ==
    LET end == pos + Len(bytes)
        newlen == IF end > Len(f) THEN end ELSE Len(f)
    IN  [i \in 1 .. newlen |->
            IF i > pos /\ i <= end THEN bytes[i - pos]
            ELSE IF i <= Len(f) THEN f[i] ELSE 0]

\* File::read into a buffer of req bytes at position pos: what it may
\* return.  0 at the end of the file and for an empty buffer, else any
\* number of bytes up to what was asked for and what is there.
ReadSizes(f, pos, req) ==
    IF req = 0 \/ pos >= Len(f) THEN {0} ELSE 1 .. min(req, Len(f) - pos)

\* Mutant of write_len_of: the chunk is written whole.
write_len_whole(left) == get_chunk_size

\* Disktest::write, line 91: write_len
write_len_of(left) == min(get_chunk_size, left)

\* Mutant of compare: the comparison starts behind the first byte.
compare_skip(buf, data, i, cnt) ==
    IF cnt <= 1 THEN -1
    ELSE IF \E j \in 1 .. (cnt - 1) : buf[j + 1] # DataByte(data, j)
         THEN CHOOSE j \in 1 .. (cnt - 1) :
                  /\ buf[j + 1] # DataByte(data, j)
                  /\ \A k \in 1 .. (j - 1) : buf[k + 1] = DataByte(data, k)
         ELSE -1

\* Disktest::verify, lines 160-165: the loop over the bytes read, from i on;
\* the index of the first byte that differs from the chunk, -1 if none does.
RECURSIVE compare(_, _, _, _)
compare(buf, data, i, cnt) ==
    IF i >= cnt THEN -1
    ELSE IF buf[i + 1] # DataByte(data, i) THEN i
    ELSE compare(buf, data, i + 1, cnt)

\* The chunk held goes out of scope: Drop for DtStreamAggChunk.  (A slot
\* that holds MaxSlotBufs buffers already keeps no more of them here.)
drop_chunk ==
    /\ held' = Tail(held)
    /\ IF push_ok(held[1].thread_id)
       THEN /\ chan' = IF Len(chan[snd[held[1].thread_id]].q) < MaxSlotBufs
                       THEN push(held[1].thread_id, held[1].chunk.data)
                       ELSE chan
            /\ cpc' = "idle"
       ELSE /\ cpc' = "panic"
            /\ UNCHANGED chan

\* A device with room for more than is ever written, that does not fail.
GoodDevice == [size |-> MaxSeek + MaxBytes + get_chunk_size, fail |-> "none"]

\* The devices: the bytes they have room for, and the operation that fails
\* on them with an error other than out-of-space.
Devices == [size : 0 .. (MaxDevBytes + 1), fail : {"none", "write", "sync", "read"}]

\* Disktest::write_finalize(bytes_written): the message and file.sync_all().
write_finalize(bytes) ==
    finalized' = <<[op |-> "write", bytes |-> bytes,
                    sync |-> IF dev.fail = "sync" THEN "failed" ELSE "ok"]>>

\* Disktest::verify_finalize(bytes_read): the message.
verify_finalize(bytes) ==
    finalized' = <<[op |-> "verify", bytes |-> bytes, sync |-> "none"]>>

\* write and verify return: their locals are gone.
return(kind, val) ==
    /\ dpc' = "idle"
    /\ dret' = [kind |-> kind, val |-> val]
    /\ bytes_left' = 0
    /\ bytes_written' = 0
    /\ bytes_read' = 0
    /\ buffer' = <<>>
    /\ read_count' = 0
    /\ read_len' = 0
    /\ read_n' = 0

\* Disktest::write(seek, max_bytes), lines 75-86: the locals, and the call
\* of stream_agg.activate(), which starts the stream at its beginning.  (The
\* file.seek that follows the call touches nothing but the file position; it
\* is part of this step.)
DiskWrite(seek, max_bytes) ==
    /\ dpc = "idle"
    /\ cpc = "idle"
    /\ held = <<>>
    /\ dop' = [op |-> "write", seek |-> seek, max_bytes |-> max_bytes]
    /\ bytes_left' = max_bytes
    /\ bytes_written' = 0
    /\ dret' = [kind |-> "-", val |-> 0]
    /\ wrote' = <<>>
    /\ finalized' = <<>>
    /\ activate(0)
    /\ fpos' = seek
    /\ dpc' = "w_seek"
    /\ UNCHANGED <<bop, file, bytes_read, buffer, read_count, read_len, read_n>>
    /\ UNCHANGED <<disk_abort, dev>>

\* Disktest::write, lines 88-90: activate has returned; the first
\* wait_chunk of the loop.
DiskWriteSeek ==
    /\ dpc = "w_seek"
    /\ cpc = "idle"
    /\ wait_chunk
    /\ dpc' = "w_chunk"
    /\ UNCHANGED <<bop, file, fpos, dop, bytes_left, bytes_written, bytes_read>>
    /\ UNCHANGED <<buffer, read_count, read_len, read_n, dret, wrote>>
    /\ UNCHANGED <<finalized, disk_abort, dev>>

\* File::write_all(bytes) at position pos of the device: the number of
\* bytes that get written and the error it ends with.  Nothing is written
\* for an empty slice; a device that fails writes takes no byte; a device
\* without room for all of them takes what fits and fails with ENOSPC.
write_all(pos, len) ==
    LET room == IF dev.size > pos THEN dev.size - pos ELSE 0
    IN  IF len = 0 THEN [n |-> 0, err |-> "none"]
        ELSE IF dev.fail = "write" THEN [n |-> 0, err |-> "EIO"]
        ELSE IF room < len THEN [n |-> room, err |-> "ENOSPC"]
        ELSE [n |-> len, err |-> "none"]

\* Mutant of write_error_result: out of space is an error like any other.
write_error_strict(err, bytes) == [kind |-> "write_error", val |-> 0]

\* Disktest::write, lines 95-102: what a failed write_all makes of the call,
\* once write_finalize has succeeded.
write_error_result(err, bytes) ==
    IF err = "ENOSPC"
    THEN [kind |-> "ok", val |-> bytes]
    ELSE [kind |-> "write_error", val |-> 0]

\* Disktest::write, lines 91-111: wait_chunk has returned the chunk; it is
\* written up to write_len.  A failed write ends the call after
\* write_finalize: with Ok(bytes_written) if the device is full, else with
\* the error.  Otherwise the bytes are accounted and the call returns, after
\* write_finalize, when no byte is left.  A write_finalize whose sync fails
\* ends the call with that error.  The chunk is dropped.
DiskWriteChunk ==
    /\ dpc = "w_chunk"
    /\ cpc = "idle"
    /\ result = "chunk"
    /\ held # <<>>
    /\ LET write_len == write_len_of(bytes_left)
           bytes == [i \in 1 .. write_len |->
                        DataByte(held[1].chunk.data, i - 1)]
           w == write_all(fpos, write_len)
       IN  /\ file' = WriteAt(file, fpos, SubSeq(bytes, 1, w.n))
           /\ fpos' = fpos + w.n
           /\ IF w.err # "none"
              THEN /\ write_finalize(bytes_written)
                   /\ IF dev.fail = "sync"
                      THEN return("sync_failed", 0)
                      ELSE return(write_error_result(w.err, bytes_written).kind,
                                  write_error_result(w.err, bytes_written).val)
                   /\ UNCHANGED wrote
              ELSE IF bytes_left - write_len = 0
              THEN /\ write_finalize(bytes_written + write_len)
                   /\ IF dev.fail = "sync"
                      THEN /\ return("sync_failed", 0)
                           /\ UNCHANGED wrote
                      ELSE /\ return("ok", bytes_written + write_len)
                           /\ wrote' = <<[seek |-> dop.seek,
                                          max_bytes |-> dop.max_bytes]>>
              ELSE /\ bytes_written' = bytes_written + write_len
                   /\ bytes_left' = bytes_left - write_len
                   /\ dpc' = "w_loop"
                   /\ UNCHANGED <<bytes_read, buffer, read_count, read_len>>
                   /\ UNCHANGED <<read_n, dret, wrote, finalized>>
    /\ drop_chunk
    /\ UNCHANGED <<wvars, tvars, num_threads, current_index, agg_active, snd>>
    /\ UNCHANGED <<cop, ci, coff, took, hvars, bop, dop, disk_abort, dev>>

\* Mutant of DiskWriteLoop: the abort flag is not looked at.
DiskWriteLoopDeaf ==
    /\ dpc = "w_loop"
    /\ cpc = "idle"
    /\ wait_chunk
    /\ dpc' = "w_chunk"
    /\ UNCHANGED <<bop, file, fpos, dop, bytes_left, bytes_written, bytes_read>>
    /\ UNCHANGED <<buffer, read_count, read_len, read_n, dret, wrote>>
    /\ UNCHANGED <<finalized, disk_abort, dev>>

\* Disktest::write, lines 118-122 and 90: with the abort flag set the call
\* ends, after write_finalize, with the error "Aborted by signal!";
\* otherwise the next round of the loop calls wait_chunk.
DiskWriteLoop ==
    /\ dpc = "w_loop"
    /\ cpc = "idle"
    /\ IF disk_abort
       THEN /\ write_finalize(bytes_written)
            /\ return(IF dev.fail = "sync" THEN "sync_failed" ELSE "aborted", 0)
            /\ UNCHANGED <<wvars, tvars, avars, cvars, hvars>>
       ELSE /\ wait_chunk
            /\ dpc' = "w_chunk"
            /\ UNCHANGED <<bytes_left, bytes_written, bytes_read>>
            /\ UNCHANGED <<buffer, read_count, read_len, read_n, dret, finalized>>
    /\ UNCHANGED <<bop, file, fpos, dop, wrote, disk_abort, dev>>

\* Disktest::verify(seek, max_bytes), lines 131-148: the locals, the read
\* buffer, and the call of stream_agg.activate().  (The file.seek and the
\* first read_len that follow the call are part of this step.)
DiskVerify(seek, max_bytes) ==
    /\ dpc = "idle"
    /\ cpc = "idle"
    /\ held = <<>>
    /\ dop' = [op |-> "verify", seek |-> seek, max_bytes |-> max_bytes]
    /\ bytes_left' = max_bytes
    /\ bytes_read' = 0
    /\ buffer' = [i \in 1 .. get_chunk_size |-> 0]
    /\ read_count' = 0
    /\ dret' = [kind |-> "-", val |-> 0]
    /\ finalized' = <<>>
    /\ activate(0)
    /\ fpos' = seek
    /\ read_len' = min(get_chunk_size, max_bytes)
    /\ dpc' = "v_read"
    /\ UNCHANGED <<bop, file, bytes_written, read_n, wrote, disk_abort, dev>>

\* Disktest::verify, lines 195-198, the end of a round of the loop: with the
\* abort flag set the call ends, after verify_finalize, with the error
\* "Aborted by signal!"; otherwise the loop reads on, with the locals given.
verify_next_round(new_bytes_read, new_bytes_left, new_read_count, new_read_len) ==
    IF disk_abort
    THEN /\ verify_finalize(new_bytes_read)
         /\ return("aborted", 0)
    ELSE /\ bytes_read' = new_bytes_read
         /\ bytes_left' = new_bytes_left
         /\ read_count' = new_read_count
         /\ read_len' = new_read_len
         /\ dpc' = "v_read"
         /\ UNCHANGED <<bytes_written, dret, finalized>>

\* Disktest::verify, lines 151-157 and 183-198, once activate has returned:
\* file.read into the rest of the buffer, which may fail; with the buffer
\* full, or with bytes in it at the end of the file, wait_chunk is called; at
\* the end of the file with nothing read the call returns after
\* verify_finalize; otherwise the round ends.
DiskVerifyRead ==
    /\ dpc = "v_read"
    /\ cpc = "idle"
    /\ IF dev.fail = "read"
       THEN /\ return("read_error", 0)
            /\ UNCHANGED <<fpos, finalized>>
            /\ UNCHANGED <<wvars, tvars, avars, cvars, hvars>>
       ELSE \E k \in ReadSizes(file, fpos, read_len - read_count) :
          /\ fpos' = fpos + k
          /\ IF read_count + k = read_len \/ (read_count + k > 0 /\ k = 0)
             THEN /\ read_n' = k
                  /\ buffer' = [i \in 1 .. Len(buffer) |->
                                   IF i > read_count /\ i <= read_count + k
                                   THEN file[fpos + (i - read_count)]
                                   ELSE buffer[i]]
                  /\ read_count' = read_count + k
                  /\ wait_chunk
                  /\ dpc' = "v_chunk"
                  /\ UNCHANGED <<bytes_left, bytes_written, bytes_read>>
                  /\ UNCHANGED <<read_len, dret, finalized>>
             ELSE /\ IF k = 0
                     THEN /\ verify_finalize(bytes_read)
                          /\ return("ok", bytes_read)
                     ELSE /\ verify_next_round(bytes_read, bytes_left,
                                               read_count + k, read_len)
                          /\ IF disk_abort
                             THEN TRUE
                             ELSE /\ read_n' = k
                                  /\ buffer' =
                                       [i \in 1 .. Len(buffer) |->
                                           IF i > read_count /\ i <= read_count + k
                                           THEN file[fpos + (i - read_count)]
                                           ELSE buffer[i]]
                  /\ UNCHANGED <<wvars, tvars, avars, cvars, hvars>>
    /\ UNCHANGED <<bop, file, dop, wrote, disk_abort, dev>>

\* Disktest::verify, lines 159-198: wait_chunk has returned the chunk; the
\* bytes read are compared with it, the first that differs ends the call
\* with its position; else they are accounted and the call returns, after
\* verify_finalize, when no byte is left or the file has ended; otherwise the
\* round ends.  The chunk is dropped.
DiskVerifyChunk ==
    /\ dpc = "v_chunk"
    /\ cpc = "idle"
    /\ result = "chunk"
    /\ held # <<>>
    /\ LET i == compare(buffer, held[1].chunk.data, 0, read_count)
       IN  IF i >= 0
           THEN /\ return("mismatch", bytes_read + i)
                /\ UNCHANGED finalized
           ELSE IF bytes_left - read_count = 0 \/ read_n = 0
                THEN /\ verify_finalize(bytes_read + read_count)
                     /\ return("ok", bytes_read + read_count)
                ELSE /\ verify_next_round(bytes_read + read_count,
                                          bytes_left - read_count, 0,
                                          min(get_chunk_size,
                                              bytes_left - read_count))
                     /\ IF disk_abort THEN TRUE
                        ELSE UNCHANGED <<buffer, read_n>>
    /\ drop_chunk
    /\ UNCHANGED <<wvars, tvars, num_threads, current_index, agg_active, snd>>
    /\ UNCHANGED <<cop, ci, coff, took, hvars, bop, file, fpos, dop, wrote>>
    /\ UNCHANGED <<disk_abort, dev>>

\* The caller has taken what the last call returned and goes on.
taken_result ==
    /\ dop' = [op |-> "-", seek |-> 0, max_bytes |-> 0]
    /\ dret' = [kind |-> "-", val |-> 0]
    /\ finalized' = <<>>

\* The file is written to behind the back of Disktest (test_basic, lines
\* 250-251): the byte at pos becomes b.
DiskMutate(pos, b) ==
    /\ dpc = "idle"
    /\ cpc = "idle"
    /\ pos \in 1 .. Len(file)
    /\ file[pos] # b
    /\ file' = [file EXCEPT ![pos] = b]
    /\ wrote' = <<>>
    /\ taken_result
    /\ UNCHANGED <<wvars, tvars, avars, cvars, hvars, bop>>
    /\ UNCHANGED <<fpos, dpc, bytes_left, bytes_written, bytes_read>>
    /\ UNCHANGED <<buffer, read_count, read_len, read_n, disk_abort, dev>>

\* File::set_len(len) behind the back of Disktest (test_basic, lines 229,
\* 234, 241, 248): the file is cut, or extended by zeros.
DiskSetLen(len) ==
    /\ dpc = "idle"
    /\ cpc = "idle"
    /\ len # Len(file)
    /\ file' = [i \in 1 .. len |-> IF i <= Len(file) THEN file[i] ELSE 0]
    /\ wrote' = <<>>
    /\ taken_result
    /\ UNCHANGED <<wvars, tvars, avars, cvars, hvars, bop>>
    /\ UNCHANGED <<fpos, dpc, bytes_left, bytes_written, bytes_read>>
    /\ UNCHANGED <<buffer, read_count, read_len, read_n, disk_abort, dev>>

\* SIGTERM or SIGINT arrives: the handler registered in Disktest::new sets the
\* abort flag.  Nothing resets it.
Signal ==
    /\ ~disk_abort
    /\ disk_abort' = TRUE
    /\ UNCHANGED <<wvars, tvars, avars, cvars, hvars, bop>>
    /\ UNCHANGED <<file, fpos, dpc, dop, bytes_left, bytes_written, bytes_read>>
    /\ UNCHANGED <<buffer, read_count, read_len, read_n, dret, wrote>>
    /\ UNCHANGED <<finalized, dev>>

\* --- the aggregator below a consumer that waits for its chunks

\* Chunks the producers below a waiting consumer generate per activation: a
\* single worker enough of them to run into the level threshold and go on
\* after it.
WaitCap == IF num_threads = 1 THEN LEVEL_THRES + 1 ELSE MaxWaitChunks

\* The activation offsets that are a multiple of the chunk size.
ChunkOffsets == {off \in Offsets : off % get_chunk_size = 0}

\* DtStreamAgg::wait_chunk() called by a consumer that pulls no more chunks
\* from a worker than the worker is scheduled to generate.
AggWaitChunkNext ==
    /\ agg_active => taken[current_index] < WaitCap
    /\ AggWaitChunk

\* Drop for DtStreamAggChunk, whatever the cache slot holds.
DropChunkAny ==
    /\ cpc = "idle"
    /\ held # <<>>
    /\ drop_chunk
    /\ UNCHANGED <<wvars, tvars, num_threads, current_index, agg_active, snd>>
    /\ UNCHANGED <<cop, ci, coff, took, hvars>>
    /\ UNCHANGED xvars

\* ---------------------------------------------------------------- specifications

InitWorkers ==
    /\ is_active = [w \in Workers |-> FALSE]
    /\ rx = [w \in Workers |-> [some |-> FALSE, q |-> <<>>]]
    /\ thread_join = [w \in Workers |-> FALSE]
    /\ abort = [w \in Workers |-> FALSE]
    /\ error = [w \in Workers |-> FALSE]
    /\ level = [w \in Workers |-> 0]
    /\ pc = [w \in Workers |-> "none"]
    /\ byte_offset = [w \in Workers |-> 0]
    /\ gen = [w \in Workers |-> 0]
    /\ index = [w \in Workers |-> 0]

\* Disktest::new on a new, empty file; no call made yet.
InitDisktest ==
    /\ file = <<>>
    /\ fpos = 0
    /\ dpc = "idle"
    /\ dop = [op |-> "-", seek |-> 0, max_bytes |-> 0]
    /\ bytes_left = 0
    /\ bytes_written = 0
    /\ bytes_read = 0
    /\ buffer = <<>>
    /\ read_count = 0
    /\ read_len = 0
    /\ read_n = 0
    /\ dret = [kind |-> "-", val |-> 0]
    /\ wrote = <<>>
    /\ finalized = <<>>
    /\ disk_abort = FALSE

\* The device is good (and in no use where there is no Disktest).
InitDevice == dev = GoodDevice

InitConsumer ==
    /\ cpc = "idle"
    /\ cop = "-"
    /\ ci = 0
    /\ coff = 0
    /\ took = <<>>
    /\ held = <<>>
    /\ result = "-"
    /\ last = <<>>
    /\ pulled = 0
    /\ taken = [w \in Workers |-> 0]
    /\ act_req = 0
    /\ act_ret = 0
    /\ bop = [op |-> "-", id |-> 0, len |-> 0, buf |-> <<>>, ret |-> "-"]
    /\ InitDisktest

\* DtStream::new(stype, seed, invert_pattern, thread_id, cache) for the
\* thread ids 0 .. n-1 in turn: each registers a consumer with the cache
\* under its id, which makes channel id + 1.
registered(n) ==
    [snd |-> [i \in 0 .. (n - 1) |-> i + 1],
     chan |-> [c \in 1 .. n |-> [q |-> <<>>, rcv |-> TRUE]]]

\* DtStreamAgg::new(stype, seed, invert_pattern, num_threads): the streams
\* are constructed idle, each registered with the cache under its id.
Init ==
    /\ num_threads \in 1 .. MaxThreads
    /\ current_index = 0
    /\ agg_active = FALSE
    /\ snd = registered(num_threads).snd
    /\ chan = registered(num_threads).chan
    /\ InitWorkers
    /\ InitConsumer
    /\ InitDevice

Next ==
    \/ \E off \in Offsets : AggActivate(off)
    \/ AggGetChunk
    \/ DropChunk
    \/ StopBegin
    \/ StopJoin
    \/ Start
    \/ Recv
    \/ Dec
    \/ \E w \in Workers : thread_worker(w, MaxAggChunks)

Spec == Init /\ [][Next]_vars

\* DtStream::new(stype, seed, 0): one stream, driven directly.
InitStream ==
    /\ num_threads = 1
    /\ current_index = 0
    /\ agg_active = FALSE
    /\ snd = [i \in 0 .. 0 |-> i + 1]
    /\ chan = [c \in 1 .. 1 |-> [q |-> <<>>, rcv |-> TRUE]]
    /\ InitWorkers
    /\ InitConsumer
    /\ InitDevice

NextStream ==
    \/ \E off \in Offsets : StreamActivate(off)
    \/ StreamGetChunk
    \/ StreamStop
    \/ StreamDrop
    \/ StreamDropFields
    \/ StopBegin
    \/ StopJoin
    \/ Start
    \/ Recv
    \/ Dec
    \/ thread_worker(0, MaxChunks)

SpecStream == InitStream /\ [][NextStream]_vars

\* The same under a fair scheduler: a producer thread that can run does run,
\* and so does the thread that is inside stop().
SpecStreamFair ==
    /\ InitStream
    /\ [][NextStream]_vars
    /\ WF_vars(thread_worker(0, MaxChunks))
    /\ WF_vars(StopBegin)
    /\ WF_vars(StopJoin)

\* The aggregator pulled from with get_chunk and with wait_chunk.
NextWait ==
    \/ \E off \in Offsets : AggActivate(off)
    \/ AggGetChunk
    \/ AggWaitChunk
    \/ WaitLoop
    \/ DropChunk
    \/ StopBegin
    \/ StopJoin
    \/ Start
    \/ Recv
    \/ Dec
    \/ \E w \in Workers : thread_worker(w, MaxWaitChunks)

SpecWait == Init /\ [][NextWait]_vars

\* The aggregator pulled from with wait_chunk under a fair scheduler: every
\* producer thread that can run does run, and so does the consumer thread
\* inside a call.
NextWaitFair ==
    \/ \E off \in ChunkOffsets : AggActivate(off)
    \/ AggWaitChunkNext
    \/ WaitLoop
    \/ DropChunkAny
    \/ StopBegin
    \/ StopJoin
    \/ Start
    \/ Recv
    \/ Dec
    \/ \E w \in Workers : thread_worker(w, WaitCap)

SpecWaitFair ==
    /\ Init
    /\ [][NextWaitFair]_vars
    /\ \A w \in Workers : WF_vars(thread_worker(w, WaitCap))
    /\ WF_vars(WaitLoop)
    /\ WF_vars(Recv)
    /\ WF_vars(Dec)
    /\ WF_vars(StopBegin)
    /\ WF_vars(StopJoin)
    /\ WF_vars(Start)

\* Disktest::new(seed, nr_threads, file, path) and its write and verify on
\* a file that is also written behind its back, as test_basic does.
NextDisk ==
    \/ \E seek \in 0 .. MaxSeek, max_bytes \in 0 .. MaxBytes :
          DiskWrite(seek, max_bytes)
    \/ DiskWriteSeek
    \/ DiskWriteChunk
    \/ DiskWriteLoop
    \/ \E seek \in 0 .. MaxSeek, max_bytes \in 0 .. (MaxBytes + 1) :
          DiskVerify(seek, max_bytes)
    \/ DiskVerifyRead
    \/ DiskVerifyChunk
    \/ \E pos \in 1 .. (MaxSeek + MaxBytes), b \in Bytes : DiskMutate(pos, b)
    \/ \E len \in 0 .. (MaxSeek + MaxBytes) : DiskSetLen(len)
    \/ StopBegin
    \/ StopJoin
    \/ Start
    \/ WaitLoop
    \/ Recv
    \/ Dec
    \/ \E w \in Workers : thread_worker(w, MaxDiskChunks)

\* test_basic, lines 213-220: nr_threads = 2, the file is new.
InitDisk ==
    /\ Init
    /\ num_threads = 2

SpecDisk == InitDisk /\ [][NextDisk]_vars

\* Disktest on a device that may be short of room or fail, with signals
\* arriving at any time.  The calls start at the beginning of the device.
NextDiskDev ==
    \/ \E max_bytes \in 0 .. MaxDevBytes : DiskWrite(0, max_bytes)
    \/ DiskWriteSeek
    \/ DiskWriteChunk
    \/ DiskWriteLoop
    \/ \E max_bytes \in 0 .. (MaxDevBytes + 1) : DiskVerify(0, max_bytes)
    \/ DiskVerifyRead
    \/ DiskVerifyChunk
    \/ Signal
    \/ StopBegin
    \/ StopJoin
    \/ Start
    \/ WaitLoop
    \/ Recv
    \/ Dec
    \/ \E w \in Workers : thread_worker(w, MaxDiskChunks)

InitDiskDev ==
    /\ num_threads = 2
    /\ current_index = 0
    /\ agg_active = FALSE
    /\ snd = [i \in 0 .. (num_threads - 1) |-> i + 1]
    /\ chan = [c \in 1 .. num_threads |-> [q |-> <<>>, rcv |-> TRUE]]
    /\ InitWorkers
    /\ InitConsumer
    /\ dev \in Devices

SpecDiskDev == InitDiskDev /\ [][NextDiskDev]_vars

\* BufCache::new(quiet_level): no consumer is registered.
InitCache ==
    /\ num_threads = 1
    /\ current_index = 0
    /\ agg_active = FALSE
    /\ snd = <<>>
    /\ chan = <<>>
    /\ InitWorkers
    /\ InitConsumer
    /\ InitDevice

NextCache ==
    \/ \E cons_id \in CacheIds : CacheNewConsumer(cons_id)
    \/ \E cons_id \in CacheIds, buf \in Bufs : CachePush(cons_id, buf)
    \/ \E c \in 1 .. MaxChans, buf_len \in 0 .. MaxBufLen : CachePull(c, buf_len)
    \/ \E c \in 1 .. MaxChans : CacheConsDrop(c)

SpecCache == InitCache /\ [][NextCache]_vars


\* ---------------------------------------------------------------- properties

\* The chunk of worker w's keystream at chunk position p.
KeyChunk(w, p) ==
    [tid |-> w, pos |-> p * get_chunk_size, len |-> get_chunk_size]

\* Chunk g of the global sequence w0c0, w1c0, ..., w(n-1)c0, w0c1, ...
GlobalChunk(g, n) == KeyChunk(g % n, g \div n)

Aligned(off) == off % get_chunk_size = 0

\* C1: after activate(k * chunk_size) the j-th chunk pulled from the
\* aggregator (j = pulled - 1) is the chunk worker (k + j) mod N produces at
\* its keystream chunk position (k + j) div N, i.e. chunk k + j of the stream
\* activated at 0.
C1_GlobalIndexing ==
    (last # <<>> /\ Aligned(act_req)) =>
        LET k == act_req \div get_chunk_size
            j == pulled - 1
        IN  /\ last[1].chunk.data.tid = (k + j) % num_threads
            /\ last[1].chunk.data.pos =
                   ((k + j) \div num_threads) * get_chunk_size
            /\ last[1].chunk.data = GlobalChunk(k + j, num_threads)

C1_Witness ==
    /\ num_threads = 2
    /\ act_req = get_chunk_size
    /\ pulled = 3
    /\ last # <<>>
    /\ last[1].chunk.data = KeyChunk(1, 1)

\* C2: the (originating worker, per-worker chunk index) of the j-th chunk
\* delivered after an activation at a chunk-aligned offset is a function of
\* worker count, offset and j alone, whatever the interleaving of the
\* producers and the consumer.
C2_Deterministic ==
    (last # <<>> /\ Aligned(act_req)) =>
        LET c == (act_req \div get_chunk_size) % num_threads
            j == pulled - 1
        IN  /\ last[1].origin = (c + j) % num_threads
            /\ last[1].chunk.index = j \div num_threads
            /\ last[1].chunk.data.tid = last[1].origin

C2_Witness ==
    /\ num_threads = 2
    /\ Aligned(act_req)
    /\ pulled = 2
    /\ last # <<>>
    /\ \E w \in Workers : pc[w] = "send" /\ rx[w].q # <<>>

\* C3: pulls are strictly round-robin: a chunk is only ever received from
\* the stream current_index names, a successful pull advances current_index
\* by one modulo N, and nothing but a successful pull (or an activation)
\* changes current_index.
C3_RoundRobin ==
    [][/\ (cpc = "recv" /\ cop = "agg_get" /\ cpc' = "dec") =>
              /\ ci = current_index
              /\ \A w \in Workers : w # current_index => rx'[w] = rx[w]
       /\ (cpc = "dec" /\ cop = "agg_get" /\ cpc' = "idle") =>
              /\ current_index' = (current_index + 1) % num_threads
              /\ last'[1].origin = current_index
       /\ (current_index' # current_index) =>
              \/ cpc = "dec" /\ result' = "chunk"
              \/ cpc = "idle" /\ cop' = "agg_activate"
       /\ (cop' = "agg_get" /\ result' \in {"none", "err"}) =>
              current_index' = current_index
      ]_vars

\* The consumer came back empty-handed from the current stream while another
\* stream had chunks ready.
C3_Witness ==
    /\ cop = "agg_get"
    /\ cpc = "idle"
    /\ result = "none"
    /\ agg_active
    /\ is_active[current_index]
    /\ rx[current_index].q = <<>>
    /\ \E w \in Workers : w # current_index /\ Len(rx[w].q) >= 2

\* C4: every aggregated chunk carries the id of the stream it was taken
\* from, and dropping it pushes its buffer to that stream's cache slot and
\* to no other.
C4_ChunkCarriesOrigin ==
    [][/\ \A i \in 1 .. Len(held') : held'[i].thread_id = held'[i].origin
       /\ (cpc = "idle" /\ Len(held') < Len(held)) =>
              chan' = [chan EXCEPT ![snd[held[1].origin]].q =
                           Append(@, held[1].chunk.data)]
      ]_vars

\* C5: activate(offset) returns the offset rounded down to a chunk, leaves
\* current_index at (returned offset / chunk_size) mod N, and the chunks
\* delivered afterwards are those of an activation at the returned offset.
C5_AlignmentPolicy ==
    /\ (cop = "agg_activate" /\ cpc = "idle") =>
           /\ agg_active
           /\ act_ret = act_req - (act_req % get_chunk_size)
           /\ current_index = (act_ret \div get_chunk_size) % num_threads
    /\ last # <<>> =>
           /\ act_ret <= act_req
           /\ act_req - act_ret < get_chunk_size
           /\ Aligned(act_ret)
           /\ last[1].chunk.data =
                  GlobalChunk((act_ret \div get_chunk_size) + pulled - 1,
                              num_threads)

C5_Witness ==
    /\ num_threads = 2
    /\ act_req = get_chunk_size + 1
    /\ act_ret = get_chunk_size
    /\ last # <<>>
    /\ pulled = 2


\* C6: a worker's outbound queue never holds more than LEVEL_THRES chunks.
C6_QueueBounded ==
    \A w \in Workers : Len(rx[w].q) <= LEVEL_THRES

\* The queue is full again after the consumer has taken chunks out.
C6_Witness ==
    /\ Len(rx[0].q) = LEVEL_THRES
    /\ taken[0] >= 2

\* Buffers of worker w that are allocated and live: the queued chunks and the
\* one being generated.
LiveBuffers(w) == Len(rx[w].q) + (IF pc[w] = "send" THEN 1 ELSE 0)

\* C7: the live chunk buffers of a worker never exceed LEVEL_THRES + 2, and
\* with LEVEL_THRES chunks queued the producer is not generating: the level
\* it reads next is at the threshold, so it sleeps.
C7_BoundedMemory ==
    \A w \in Workers :
        /\ LiveBuffers(w) <= LEVEL_THRES + 2
        /\ Len(rx[w].q) >= LEVEL_THRES =>
               /\ pc[w] # "send"
               /\ pc[w] # "inc" => level[w] >= LEVEL_THRES

\* The consumer is not pulling, the queue is full, the producer is back at
\* the head of its loop after sleeping.
C7_Witness ==
    /\ cpc = "idle"
    /\ Len(rx[0].q) = LEVEL_THRES
    /\ level[0] = LEVEL_THRES
    /\ pc[0] = "check_abort"
    /\ index[0] = LEVEL_THRES

\* C8: within one activation the chunks successive successful get_chunk
\* calls return have index 0, 1, 2, ...: the chunk of the n-th successful
\* call has index n - 1.
C8_IndexSequence ==
    /\ last # <<>> => last[1].chunk.index = pulled - 1
    /\ cpc = "dec" => took[1].index = pulled

C8_Witness ==
    /\ last # <<>>
    /\ pulled = 3
    /\ last[1].chunk.index = 2

\* C9: a failing seek sets the error flag and ends the producer before any
\* chunk is sent; while the flag is set no chunk is queued or received and
\* get_chunk on the active worker returns the error; only the start of the
\* next activation clears the flag.
C9_SeekError ==
    /\ [](\A w \in Workers :
            error[w] => /\ rx[w].q = <<>>
                        /\ pc[w] \in {"done", "none"}
                        /\ (ci = w => took = <<>>))
    /\ [][/\ \A w \in Workers :
               (pc[w] = "seek" /\ pc'[w] # "seek" /\ ~GenSeekOk(byte_offset[w]))
                   => (error'[w] /\ pc'[w] = "done" /\ rx'[w].q = <<>>)
          /\ (StreamGetChunk /\ is_active[0] /\ error[0])
                 => (result' = "err" /\ cpc' = "idle")
          /\ \A w \in Workers :
               (error[w] /\ ~error'[w])
                   => (cpc = "start" /\ ci = w /\ is_active'[w])
         ]_vars

C9_Witness ==
    /\ error[0]
    /\ is_active[0]
    /\ cop = "get"
    /\ result = "err"

\* C10: when stop() has returned the worker has no join handle and no
\* producer thread; stop() on a worker without a thread (never activated, or
\* stopped before) does not block and leaves the worker as it was.
C10_StopJoins ==
    /\ []((cpc \in {"start", "dropped"} \/ (cpc = "idle" /\ cop = "stop"))
             => (~thread_join[ci] /\ pc[ci] = "none"))
    /\ []((cpc = "join" /\ ~thread_join[ci]) => ENABLED StopJoin)
    /\ [][/\ (cpc = "stop" /\ cpc' = "join" /\ ~thread_join[ci])
                 => /\ ~is_active[ci]
                    /\ ~abort[ci]
                    /\ UNCHANGED <<is_active, rx, thread_join, error, level>>
                    /\ UNCHANGED tvars
          /\ (cpc = "join" /\ cpc' # "join" /\ ~thread_join[ci])
                 => /\ ~abort'[ci]
                    /\ UNCHANGED <<is_active, rx, thread_join, error, level>>
                    /\ UNCHANGED tvars
         ]_vars

\* stop() is running on a worker that was activated, produced, and has been
\* stopped already.
C10_Witness ==
    /\ cpc = "join"
    /\ cop = "stop"
    /\ ~thread_join[0]
    /\ rx[0].some
    /\ rx[0].q # <<>>

\* The chunks of worker w that are in flight to the consumer, oldest first.
InFlight(w) == (IF ci = w THEN took ELSE <<>>) \o rx[w].q

\* C11: activate on a worker in any state stops the old producer before it
\* starts a new one (no thread of the worker exists when the new one is
\* spawned), start leaves abort and error false, the level 0 and the channel
\* new and empty, and every chunk received afterwards is one of the new
\* activation: the chunks in flight have the indices taken, taken + 1, ...
\* and lie at offset + index * chunk_size, so the first chunk returned has
\* index 0 and starts at the new offset.  (While activate is still on its way
\* to stop the worker, the worker is in its earlier activation.)
C11_Reactivate ==
    /\ []((is_active[0] /\ ~(cop = "activate" /\ cpc = "stop")) =>
            /\ \A i \in 1 .. Len(InFlight(0)) :
                   /\ InFlight(0)[i].index = taken[0] + i - 1
                   /\ InFlight(0)[i].data.pos =
                          act_req + InFlight(0)[i].index * get_chunk_size
            /\ last # <<>> =>
                   /\ last[1].chunk.index = pulled - 1
                   /\ last[1].chunk.data.pos =
                          act_req + (pulled - 1) * get_chunk_size)
    /\ [][/\ (cpc = "stop" /\ cpc' = "join" /\ cop = "activate")
                 => (abort'[0] /\ ~is_active'[0])
          /\ (cpc = "start" /\ cpc' # "start")
                 => /\ pc[0] = "none"
                    /\ ~thread_join[0]
                    /\ pc'[0] = "seek"
                    /\ thread_join'[0]
                    /\ is_active'[0]
                    /\ ~abort'[0]
                    /\ ~error'[0]
                    /\ level'[0] = 0
                    /\ rx'[0].some
                    /\ rx'[0].q = <<>>
                    /\ byte_offset'[0] = act_req
          /\ (pc[0] \in {"none", "done"} /\ pc'[0] \notin {"none", "done"})
                 => (cpc = "start" /\ pc[0] = "none")
         ]_vars

\* activate(chunk_size) has stopped a worker whose producer had filled the
\* queue, and is about to start the new producer.
C11_Witness ==
    /\ cop = "activate"
    /\ cpc = "start"
    /\ act_req = get_chunk_size
    /\ pc[0] = "none"
    /\ Len(rx[0].q) = LEVEL_THRES
    /\ level[0] = LEVEL_THRES

\* C12: new_consumer with an id that is registered already fails: the
\* sender map and the channels stay as they were, so the slot of the first
\* consumer is neither replaced nor disconnected.
C12_RegisterTwiceFails ==
    [][\A cons_id \in CacheIds :
          (CacheNewConsumer(cons_id) /\ cons_id \in DOMAIN snd)
              => /\ bop'.ret # "ok"
                 /\ snd' = snd
                 /\ chan' = chan
      ]_vars

\* C13: push to an id that was never registered panics and changes nothing
\* in the cache; push to a registered id does not panic.
C13_PushUnknownPanics ==
    /\ [](cpc = "panic" => (bop.op = "push" /\ bop.id \notin DOMAIN snd))
    /\ [][\A cons_id \in CacheIds, buf \in Bufs :
             CachePush(cons_id, buf)
                 => IF cons_id \in DOMAIN snd
                    THEN cpc' = "idle" /\ bop'.ret # "panic"
                    ELSE /\ cpc' = "panic"
                         /\ bop'.ret = "panic"
                         /\ snd' = snd
                         /\ chan' = chan
         ]_vars

\* The push to id 1 panicked in a cache that has id 0 registered and its
\* consumer dropped.
C13_Witness ==
    /\ cpc = "panic"
    /\ bop.op = "push"
    /\ bop.id = 1
    /\ DOMAIN snd = {0}
    /\ ~chan[snd[0]].rcv

\* C14: push to a registered slot whose consumer has been dropped returns
\* without a panic, the buffer is in no channel afterwards, the registered
\* slots are the same; a push to a slot whose consumer is there queues the
\* buffer behind what the slot holds, whatever happened before.
C14_PushClosedTolerated ==
    [][\A cons_id \in CacheIds, buf \in Bufs :
          (CachePush(cons_id, buf) /\ cons_id \in DOMAIN snd)
              => IF chan[snd[cons_id]].rcv
                 THEN /\ cpc' = "idle"
                      /\ snd' = snd
                      /\ chan' = [chan EXCEPT ![snd[cons_id]].q = Append(@, buf)]
                 ELSE /\ cpc' = "idle"
                      /\ bop'.ret = "send_failed"
                      /\ snd' = snd
                      /\ chan' = chan
      ]_vars

\* A push to the closed slot of id 0 has just failed, while the slot of id 1
\* holds a buffer.
C14_Witness ==
    /\ cpc = "idle"
    /\ bop.op = "push"
    /\ bop.ret = "send_failed"
    /\ bop.id = 0
    /\ DOMAIN snd = {0, 1}
    /\ chan[snd[1]].rcv
    /\ chan[snd[1]].q # <<>>

\* C15: pull(buf_len) returns a buffer of exactly buf_len bytes: the oldest
\* buffer of the slot, cut to buf_len or extended by zero bytes, which is
\* removed from the slot; or buf_len zero bytes if the slot is empty.  No
\* other slot changes.
C15_PullExactLen ==
    [][\A c \in 1 .. MaxChans, buf_len \in 0 .. MaxBufLen :
          CachePull(c, buf_len)
              => LET old == chan[c].q
                     src == IF old # <<>> THEN old[1] ELSE <<>>
                 IN  /\ Len(bop'.buf) = buf_len
                     /\ \A i \in 1 .. buf_len :
                            bop'.buf[i] = IF i <= Len(src) THEN src[i] ELSE 0
                     /\ chan'[c].q = IF old # <<>> THEN Tail(old) ELSE <<>>
                     /\ \A d \in 1 .. Len(chan) : d # c => chan'[d] = chan[d]
                     /\ Len(chan') = Len(chan)
      ]_vars

\* pull(1) returned the first byte of a longer recycled buffer and left a
\* younger buffer in the slot.
C15_Witness ==
    /\ bop.op = "pull"
    /\ bop.len = 1
    /\ bop.buf = <<1>>
    /\ chan[bop.id].q # <<>>

\* C16: on an aggregator that has not been activated get_chunk returns
\* none and leaves streams, threads, aggregator and cache as they were, and
\* wait_chunk panics: it neither enters its loop nor returns.
C16_InactiveAggregator ==
    /\ [](cpc = "panic" /\ cop = "agg_wait" => ~agg_active)
    /\ [][/\ (AggGetChunk /\ ~agg_active)
                 => /\ result' = "none"
                    /\ cpc' = "idle"
                    /\ UNCHANGED <<wvars, tvars, avars, held, took>>
          /\ (AggWaitChunk /\ ~agg_active)
                 => /\ cpc' = "panic"
                    /\ UNCHANGED <<wvars, tvars, avars, held, took, last>>
          /\ cpc = "panic" => cpc' = "panic"
         ]_vars

\* wait_chunk panicked on a two-worker aggregator that was never activated.
C16_Witness ==
    /\ cpc = "panic"
    /\ cop = "agg_wait"
    /\ result = "-"
    /\ ~agg_active
    /\ num_threads = 2

\* Byte i of the aggregated stream that starts at offset 0: chunk i div
\* chunk_size of the global sequence, a chunk of worker (that mod N).
StreamByte(i) ==
    LET g == i \div get_chunk_size
    IN  KeyByte(g % num_threads,
                (g \div num_threads) * get_chunk_size + (i % get_chunk_size))

\* A call of op has returned and its result has not been taken yet.
Returned(op) == dpc = "idle" /\ dop.op = op /\ dret.kind # "-"

\* C17: without device error and abort, write(seek, n) puts the first n
\* bytes of the aggregated stream at seek .. seek + n - 1, changes no other
\* byte (a gap before seek reads as zeros) and returns n, each chunk written
\* up to min(chunk_size, bytes_left); verify(seek, m) after it, the file
\* being as the write left it, returns Ok(min(m, n)) when the file ends with
\* the bytes written or m <= n.
C17_WriteVerify ==
    /\ [](dpc \in {"w_seek", "w_chunk", "w_loop"} =>
            /\ fpos = dop.seek + bytes_written
            /\ bytes_written + bytes_left = dop.max_bytes
            /\ \A i \in 0 .. (bytes_written - 1) :
                   file[dop.seek + i + 1] = StreamByte(i))
    /\ [](Returned("write") =>
            /\ dret = [kind |-> "ok", val |-> dop.max_bytes]
            /\ wrote = <<[seek |-> dop.seek, max_bytes |-> dop.max_bytes]>>)
    /\ [](wrote # <<>> =>
            /\ Len(file) >= wrote[1].seek + wrote[1].max_bytes
            /\ \A i \in 0 .. (wrote[1].max_bytes - 1) :
                   file[wrote[1].seek + i + 1] = StreamByte(i))
    /\ []((Returned("verify") /\ wrote # <<>> /\ wrote[1].seek = dop.seek
              /\ (\/ dop.max_bytes <= wrote[1].max_bytes
                  \/ Len(file) = wrote[1].seek + wrote[1].max_bytes))
             => dret = [kind |-> "ok",
                        val |-> min(dop.max_bytes, wrote[1].max_bytes)])
    /\ [][(dpc = "w_chunk" /\ dpc' # "w_chunk") =>
             LET wl == min(get_chunk_size, bytes_left)
             IN  /\ Len(file') = (IF fpos + wl > Len(file)
                                  THEN fpos + wl ELSE Len(file))
                 /\ \A i \in 1 .. Len(file') :
                        file'[i] = IF i > fpos /\ i <= fpos + wl
                                   THEN StreamByte(i - 1 - dop.seek)
                                   ELSE IF i <= Len(file) THEN file[i] ELSE 0
         ]_vars

\* write(1, 3) took a whole chunk of worker 0 and a byte of worker 1, and
\* verify(1, 4) returned Ok(3).
C17_Witness ==
    /\ Returned("verify")
    /\ dop.seek = 1
    /\ dop.max_bytes = MaxBytes + 1
    /\ wrote = <<[seek |-> 1, max_bytes |-> MaxBytes]>>
    /\ Len(file) = 1 + MaxBytes
    /\ dret = [kind |-> "ok", val |-> MaxBytes]
    /\ pulled = 2

\* The positions in the range verify(seek, m) reads at which the file
\* differs from the stream, counted from seek.
Differing ==
    LET avail == IF Len(file) > dop.seek THEN Len(file) - dop.seek ELSE 0
    IN  {i \in 0 .. (min(dop.max_bytes, avail) - 1) :
            file[dop.seek + i + 1] # StreamByte(i)}

\* C18: verify returns the mismatch error exactly when a byte of the range
\* it reads differs from the stream byte of the same position, and reports
\* the smallest such position counted from seek; else it returns Ok with the
\* number of bytes of the range.
C18_VerifyMismatch ==
    Returned("verify") =>
        LET avail == IF Len(file) > dop.seek THEN Len(file) - dop.seek ELSE 0
        IN  IF Differing = {}
            THEN dret = [kind |-> "ok", val |-> min(dop.max_bytes, avail)]
            ELSE /\ dret.kind = "mismatch"
                 /\ dret.val \in Differing
                 /\ \A i \in Differing : dret.val <= i

\* verify reported the first byte of the second chunk; a later byte
\* differs as well, the first chunk does not.
C18_Witness ==
    /\ Returned("verify")
    /\ dop.seek = 0
    /\ dret = [kind |-> "mismatch", val |-> get_chunk_size]
    /\ Cardinality(Differing) >= 2

\* C19: the producer of a worker activated at offset o seeks to o before it
\* generates: nothing is queued while it seeks, and the chunk of index j it
\* delivers holds the bytes o + j * chunk_size .. o + (j + 1) * chunk_size - 1
\* of the worker's keystream.  So chunk 0 of an activation at chunk_size and
\* chunk 1 of an activation at 0 are both KeyChunk(0, 1).
C19_SeekBeforeProduce ==
    /\ [](pc[0] = "seek" => (rx[0].q = <<>> /\ level[0] = 0))
    /\ []((last # <<>> /\ is_active[0] /\ ~(cop = "activate" /\ cpc = "stop"))
             => /\ last[1].chunk.data.tid = 0
                /\ last[1].chunk.data.len = get_chunk_size
                /\ \A b \in 0 .. (get_chunk_size - 1) :
                       DataByte(last[1].chunk.data, b) =
                           KeyByte(0, act_req + last[1].chunk.index * get_chunk_size + b)
                /\ act_req % get_chunk_size = 0 =>
                       last[1].chunk.data =
                           KeyChunk(0, (act_req \div get_chunk_size)
                                           + last[1].chunk.index))
    /\ [][/\ (pc[0] = "seek" /\ pc'[0] = "check_abort")
                 => gen'[0] = byte_offset[0]
          /\ (pc[0] = "send" /\ pc'[0] = "inc")
                 => /\ gen[0] = byte_offset[0] + index[0] * get_chunk_size
                    /\ rx'[0].q[Len(rx'[0].q)].data.pos = gen[0]
         ]_vars

\* The first chunk of an activation at chunk_size has been returned: it is
\* the second chunk of the worker's keystream.
C19_Witness ==
    /\ is_active[0]
    /\ act_req = get_chunk_size
    /\ last # <<>>
    /\ last[1].chunk.index = 0
    /\ last[1].chunk.data = KeyChunk(0, 1)

\* C20: under fair scheduling a producer that runs while abort is set
\* reaches its exit, from every position of its loop; a running producer can
\* always take a step (it never blocks); and stop(), alone or inside
\* activate or the destructor, returns.
C20_AbortTerminates ==
    /\ (abort[0] /\ pc[0] \notin {"none", "done"}) ~> (pc[0] = "done")
    /\ [](pc[0] \notin {"none", "done"} => ENABLED thread_worker(0, MaxChunks))
    /\ (cpc = "stop") ~> (cpc \in {"start", "idle", "dropped"})
    /\ (cpc = "join") ~> (~thread_join[0] /\ pc[0] = "none")

\* abort is set while the producer is in its loop with the level at the
\* cap, where it sleeps.
C20_Witness ==
    /\ abort[0]
    /\ cpc = "join"
    /\ pc[0] = "check_level"
    /\ level[0] = LEVEL_THRES
    /\ Len(rx[0].q) = LEVEL_THRES

\* The byte offset activate(act_req) started worker w at.
ActivatedAt(w) ==
    thread_offset(w, chunk_index_of(act_req),
                  chunk_index_of(act_req) % num_threads, num_threads)

\* wait_chunk has returned (not by a panic).
WaitReturned == cop = "agg_wait" /\ cpc = "idle"

\* C21: under fair scheduling wait_chunk on an activated aggregator returns:
\* a chunk if the seek of the worker it pulled from succeeded, the error if
\* it failed.  While the consumer waits on the empty queue of the worker at
\* current_index and no error is flagged, that worker's producer is running
\* and its level is below LEVEL_THRES, so it is not idle.
C21_PullReturns ==
    /\ (cpc = "wait") ~> (WaitReturned /\ result \in {"chunk", "err"})
    /\ [](WaitReturned =>
            /\ result \in {"chunk", "err"}
            /\ result = "err" <=> ~GenSeekOk(ActivatedAt(ci))
            /\ result = "chunk" => last[1].origin = ci)
    /\ []((cop = "agg_wait" /\ cpc \in {"wait", "recv"}
              /\ rx[current_index].q = <<>> /\ ~error[current_index])
             => /\ pc[current_index] \notin {"none", "done"}
                /\ ~abort[current_index]
                /\ level[current_index] < LEVEL_THRES)

\* A single worker's consumer has taken LEVEL_THRES chunks and waits for the
\* next, having found the queue empty.
C21_Witness ==
    /\ num_threads = 1
    /\ cop = "agg_wait"
    /\ cpc = "wait"
    /\ result = "none"
    /\ pulled = LEVEL_THRES
    /\ rx[0].q = <<>>

\* The buffers of the chunks in a queue, oldest first.
QueuedData(q) == [i \in 1 .. Len(q) |-> q[i].data]

\* C22: the chunks in the queue of a worker that has been stopped (stop has
\* joined its thread) are never received by the consumer; when the queue goes
\* they are discarded, and their buffers are pushed to the worker's cache
\* slot.
C22_StoppedQueueReleased ==
    [][/\ (cpc = "recv" /\ cpc' = "dec") => is_active[ci]
       /\ \A w \in Workers :
            (~is_active[w] /\ pc[w] = "none" /\ rx[w].q # <<>>
                 /\ rx'[w].q # rx[w].q)
                => /\ rx'[w].q = <<>>
                   /\ took' = took
                   /\ held' = held
                   /\ chan' = [chan EXCEPT ![snd[w]].q = @ \o QueuedData(rx[w].q)]
      ]_vars

\* C23: cache slots are independent.  A push under id w changes the channel
\* registered for w and no other; a pull through a handle takes from that
\* handle's channel and no other, so a buffer pushed under w comes out
\* through the handle registered for w only; and a pull through another
\* handle whose slot is empty, right after a push under w, returns buf_len
\* zero bytes and leaves the buffer in w's slot.
C23_SlotsIndependent ==
    [][/\ \A cons_id \in CacheIds, buf \in Bufs :
            (CachePush(cons_id, buf) /\ cons_id \in DOMAIN snd)
                => /\ \A c \in 1 .. Len(chan) :
                          c # snd[cons_id] => chan'[c] = chan[c]
                   /\ chan[snd[cons_id]].rcv =>
                          chan'[snd[cons_id]].q = Append(chan[snd[cons_id]].q, buf)
       /\ \A c \in 1 .. MaxChans, buf_len \in 0 .. MaxBufLen :
            CachePull(c, buf_len)
                => /\ \A d \in 1 .. Len(chan) : d # c => chan'[d] = chan[d]
                   /\ chan[c].q = <<>> => bop'.buf = [i \in 1 .. buf_len |-> 0]
                   /\ chan[c].q # <<>> =>
                          /\ chan'[c].q = Tail(chan[c].q)
                          /\ \A i \in 1 .. buf_len :
                                 i <= Len(chan[c].q[1]) => bop'.buf[i] = chan[c].q[1][i]
                   /\ (bop.op = "push" /\ bop.ret = "ok" /\ snd[bop.id] # c
                          /\ chan[c].q = <<>>)
                         => /\ bop'.buf = [i \in 1 .. buf_len |-> 0]
                            /\ chan'[snd[bop.id]].q = chan[snd[bop.id]].q
                            /\ chan'[snd[bop.id]].q # <<>>
      ]_vars

\* A push under one id was followed by a pull through the other handle, whose
\* slot was empty: it returned zeros, the buffer pushed is still in its slot.
C23_Witness ==
    /\ bop.op = "pull"
    /\ bop.len = MaxBufLen
    /\ bop.buf = [i \in 1 .. MaxBufLen |-> 0]
    /\ DOMAIN snd = {0, 1}
    /\ \E w \in DOMAIN snd :
          /\ snd[w] # bop.id
          /\ chan[snd[w]].q = <<[i \in 1 .. MaxBufLen |-> 1]>>

\* The bytes of the device from position pos on.
Room(pos) == IF dev.size > pos THEN dev.size - pos ELSE 0

\* C24: when File::write_all fails in the write loop because the device is
\* full, write calls write_finalize with the bytes accounted so far and, the
\* sync done, returns Ok with that number: the chunks written whole before
\* the failing one.  On any other write error it calls write_finalize as well
\* and returns an error.  A failed sync makes the call return the sync error
\* in both cases.
C24_OutOfSpaceEndsWrite ==
    /\ [](Returned("write") =>
            /\ finalized # <<>>
            /\ finalized[1].op = "write"
            /\ dret.kind = "ok" =>
                   /\ finalized[1] = [op |-> "write", bytes |-> dret.val,
                                      sync |-> "ok"]
                   /\ dev.fail \notin {"write", "sync"} \/ dop.max_bytes = 0
                   /\ dret.val = IF Room(dop.seek) >= dop.max_bytes
                                 THEN dop.max_bytes
                                 ELSE (Room(dop.seek) \div get_chunk_size)
                                          * get_chunk_size
            /\ dret.kind = "write_error" =>
                   /\ dev.fail = "write"
                   /\ finalized[1].sync = "ok"
            /\ (dev.fail = "write" /\ dop.max_bytes > 0) =>
                   dret.kind = "write_error")
    /\ [][(dpc = "w_chunk" /\ dpc' # "w_chunk") =>
             LET wl == min(get_chunk_size, bytes_left)
                 full == dev.fail # "write" /\ Room(fpos) < wl
                 other == dev.fail = "write" /\ wl > 0
             IN  /\ full =>
                        /\ dpc' = "idle"
                        /\ finalized' = <<[op |-> "write", bytes |-> bytes_written,
                                           sync |-> IF dev.fail = "sync"
                                                    THEN "failed" ELSE "ok"]>>
                        /\ dret' = IF dev.fail = "sync"
                                   THEN [kind |-> "sync_failed", val |-> 0]
                                   ELSE [kind |-> "ok", val |-> bytes_written]
                        /\ Len(file') = IF fpos + Room(fpos) > Len(file)
                                        THEN fpos + Room(fpos) ELSE Len(file)
                 /\ other =>
                        /\ dpc' = "idle"
                        /\ finalized' # <<>>
                        /\ finalized'[1].bytes = bytes_written
                        /\ dret'.kind \in {"write_error", "sync_failed"}
                        /\ file' = file
         ]_vars

\* write(0, 3) on a device with room for one chunk returned Ok(chunk_size):
\* the second chunk met the end of the device.
C24_Witness ==
    /\ Returned("write")
    /\ dop.max_bytes = get_chunk_size + 1
    /\ dev = [size |-> get_chunk_size, fail |-> "none"]
    /\ dret = [kind |-> "ok", val |-> get_chunk_size]
    /\ Len(file) = get_chunk_size
    /\ pulled = 2

\* C25: the abort flag is looked at by write and verify only, at the end of
\* a round of their loop.  Set then, the call finalizes and returns "Aborted
\* by signal!" (the sync error if the sync of write_finalize fails); clear
\* then, the loop goes on.  (A round of verify whose read has not filled the
\* buffer ends with the same look at the flag, no chunk compared.)  A round
\* that completes the byte count or meets the end of the device or file
\* returns its result whatever the flag is.
\* Setting the flag changes nothing in the aggregator and its workers, and
\* after an aborted call they are still active, no worker told to abort.
C25_AbortObservedByDriver ==
    /\ []((dpc = "idle" /\ dret.kind = "aborted") =>
            /\ disk_abort
            /\ finalized # <<>>
            /\ finalized[1].op = dop.op
            /\ dop.op = "write" => finalized[1].bytes > 0
            /\ finalized[1].bytes < dop.max_bytes
            /\ agg_active
            /\ \A w \in 0 .. (num_threads - 1) : is_active[w] /\ ~abort[w])
    /\ [][/\ disk_abort' # disk_abort
                 => UNCHANGED <<wvars, tvars, avars, cvars, hvars, dpc, dret>>
          /\ (dpc = "w_loop" /\ dpc' # "w_loop") =>
                 IF disk_abort
                 THEN /\ dpc' = "idle"
                      /\ dret'.kind = IF dev.fail = "sync"
                                      THEN "sync_failed" ELSE "aborted"
                      /\ finalized' # <<>>
                      /\ finalized'[1].bytes = bytes_written
                      /\ UNCHANGED <<wvars, tvars, avars, cvars, file>>
                 ELSE dpc' = "w_chunk" /\ cpc' = "wait"
          /\ (dpc = "w_chunk" /\ dpc' # "w_chunk") =>
                 /\ dret'.kind # "aborted"
                 /\ bytes_left <= get_chunk_size => dpc' = "idle"
                 /\ dpc' = "w_loop" => bytes_left' > 0
          /\ (dpc = "v_chunk" /\ dpc' # "v_chunk") =>
                 IF bytes_left - read_count = 0 \/ read_n = 0
                 THEN dpc' = "idle" /\ dret'.kind \in {"ok", "mismatch"}
                 ELSE IF dret'.kind = "mismatch" THEN dpc' = "idle"
                 ELSE IF disk_abort
                 THEN /\ dpc' = "idle"
                      /\ dret'.kind = "aborted"
                      /\ finalized' = <<[op |-> "verify",
                                         bytes |-> bytes_read + read_count,
                                         sync |-> "none"]>>
                 ELSE dpc' = "v_read"
          /\ (dpc = "v_read" /\ dret'.kind = "aborted") =>
                 /\ disk_abort
                 /\ fpos' > fpos
                 /\ fpos' - fpos < read_len - read_count
          /\ (dpc = "v_read" /\ dpc' = "v_read" /\ fpos' # fpos) => ~disk_abort
         ]_vars

\* write(0, 3) was aborted after its first chunk: the flag was set when the
\* loop looked at it.
C25_Witness ==
    /\ dpc = "idle"
    /\ dop = [op |-> "write", seek |-> 0, max_bytes |-> get_chunk_size + 1]
    /\ dret.kind = "aborted"
    /\ finalized = <<[op |-> "write", bytes |-> get_chunk_size, sync |-> "ok"]>>
    /\ Len(file) = get_chunk_size

\* The producer of w has sent a chunk and not yet incremented the level.
ProducerBetween(w) == pc[w] = "inc"

\* The consumer has received a chunk of w and not yet decremented the level.
ConsumerBetween(w) == cpc = "dec" /\ ci = w

\* The DtStream of worker w has been destroyed, its channel with it.
Destroyed(w) == cpc = "gone" /\ ci = w

\* C26: the level of a worker lies in -1 .. LEVEL_THRES.  As long as the
\* worker exists it is the queue length, less one while the producer is
\* between its send and its increment, plus one while the consumer is
\* between its receive and its decrement: so it is negative only when the
\* consumer has taken and accounted a chunk the producer has not yet
\* accounted, and with neither of them in between it equals the number of
\* chunks queued.
C26_LevelRange ==
    \A w \in Workers :
        /\ level[w] \in -1 .. LEVEL_THRES
        /\ ~Destroyed(w) =>
               level[w] = Len(rx[w].q)
                             - (IF ProducerBetween(w) THEN 1 ELSE 0)
                             + (IF ConsumerBetween(w) THEN 1 ELSE 0)
        /\ level[w] < 0 =>
               /\ ProducerBetween(w)
               /\ ~ConsumerBetween(w)
               /\ rx[w].q = <<>>
               /\ taken[w] = index[w]
        /\ (~Destroyed(w) /\ ~ProducerBetween(w) /\ ~ConsumerBetween(w)) =>
               level[w] = Len(rx[w].q)

\* The consumer has taken a chunk and decremented the level before the
\* producer has incremented it, in an activation whose producer had filled
\* the queue before.
C26_Witness ==
    /\ level[0] = -1
    /\ pc[0] = "inc"
    /\ index[0] > LEVEL_THRES
    /\ cpc = "idle"
    /\ result = "chunk"

\* C27: the producer's send never fails.  A worker's receiver is replaced
\* (by start) or dropped (with the DtStream) only when the worker has no
\* producer thread, the earlier one having been joined; so a thread that
\* exists has the receiver of its channel alive, and no thread panics.
C27_SendNeverFails ==
    /\ [](\A w \in Workers :
            /\ pc[w] # "panic"
            /\ pc[w] \notin {"none", "done"} => rx[w].some
            /\ pc[w] # "none" => thread_join[w])
    /\ [][\A w \in Workers :
            (\/ cpc = "start" /\ ci = w /\ cpc' # "start"
             \/ rx[w].some /\ ~rx'[w].some)
                => /\ pc[w] = "none"
                   /\ ~thread_join[w]
         ]_vars

\* The DtStream is destroyed, its receiver dropped with chunks queued, after
\* a re-activation; the producer was joined before.
C27_Witness ==
    /\ cpc = "gone"
    /\ ~rx[0].some
    /\ pc[0] = "none"
    /\ level[0] = LEVEL_THRES
    /\ act_req = get_chunk_size

\* C28: dropping an aggregated chunk never panics on an unknown consumer.
\* The ids 0 .. N-1 are registered with the cache and stay so, the index of
\* the aggregator and the thread_id of every chunk handed out are in
\* 0 .. N-1, and every drop of a chunk, after a re-activation too, pushes
\* its buffer and returns.
C28_DropNeverPanics ==
    /\ [](/\ DOMAIN snd = 0 .. (num_threads - 1)
          /\ current_index \in 0 .. (num_threads - 1)
          /\ \A i \in 1 .. Len(held) :
                /\ held[i].thread_id \in 0 .. (num_threads - 1)
                /\ push_ok(held[i].thread_id)
          /\ cpc # "panic")
    /\ [][(cpc = "idle" /\ held # <<>> /\ held' = Tail(held))
            => /\ cpc' = "idle"
               /\ \/ chan' = [chan EXCEPT ![snd[held[1].thread_id]].q =
                                Append(@, held[1].chunk.data)]
                  \/ ~chan[snd[held[1].thread_id]].rcv /\ chan' = chan
         ]_vars

\* The aggregator of MaxThreads workers has been activated again while the
\* consumer holds chunks of the activation before, the first of them with
\* the highest id, and the buffer of a chunk dropped is in the cache.
C28_Witness ==
    /\ num_threads = MaxThreads
    /\ cpc = "idle"
    /\ cop = "agg_activate"
    /\ act_req > 0
    /\ Len(held) = MaxHeld
    /\ held[1].thread_id = num_threads - 1
    /\ \E c \in 1 .. Len(chan) : chan[c].q # <<>>

====






